---- MODULE Spec2Model ----
(***************************************************************************)
(* Dual-grid autotiling engine of the mining game.                         *)
(*                                                                         *)
(*   - the pattern catalog (TILE_PATTERNS, PATTERN_LOOKUP, getPatternIndex, *)
(*     getPatternByIndex) of src/js/tileRenderer.js, lines 332-448;         *)
(*   - the terrain grid and the auto-tiler (DualGridSystem) of              *)
(*     src/js/dualGridSystem.js.                                            *)
(*                                                                         *)
(* JavaScript arrays are modelled as functions over 0..n-1 (the grid) or as *)
(* sequences read through ArrayAt (TILE_PATTERNS); a Map is a function     *)
(* whose DOMAIN is its key set.                                            *)
(***************************************************************************)
EXTENDS Integers, Sequences, FiniteSets, TLC

VARIABLES
    loadPc,          \* how far the module-level script of the catalog has run
    TILE_PATTERNS,   \* the global array filled by generateAllPatterns
    PATTERN_LOOKUP,  \* the global Map filled by initializePatternLookup
    width,           \* DualGridSystem.width
    height,          \* DualGridSystem.height
    baseGrid,        \* DualGridSystem.baseGrid, baseGrid[y][x]
    call,            \* the last call made: its name, its arguments and, where
                     \* it calls Math.random(), the outcomes it was given
    ret,             \* what that call returned
    written,         \* history: the state last written to each cell <<x, y>>
    steps,           \* operations applied since the grid was last replaced
    currentMapType,  \* MapGenerator.currentMapType
    player,          \* Player: x, y and the direction it faces
    canvas,          \* the drawing on the canvas: the grid it was last drawn
                     \* from, cell by cell, canvas[y][x]
    keys,            \* InputHandler.keys
    event            \* the keyboard event last dispatched: its type and key

vars == <<loadPc, TILE_PATTERNS, PATTERN_LOOKUP, width, height, baseGrid,
          call, ret, written, steps, currentMapType, player, canvas,
          keys, event>>

catalogVars == <<loadPc, TILE_PATTERNS, PATTERN_LOOKUP>>
gridVars == <<width, height, baseGrid, written, steps>>
generatorVars == <<currentMapType>>
playerVars == <<player>>
displayVars == <<canvas>>
inputVars == <<keys, event>>

-----------------------------------------------------------------------------
(* Bounds of the model *)

\* the grid the constructor builds is MaxW x MaxH
MaxW == 3
MaxH == 3
\* cell operations (setTerrainAt, digAt) explored on one grid before it is
\* replaced wholesale
MaxOps == 1
\* successive digAt calls explored on one grid
MaxDigs == 2
\* how far beyond the valid range the arguments of the catalog lookups reach
Slack == 1
\* Math.random() yields the multiples of 1 / RandDenom in [0, 1)
RandDenom == 20
\* successive outcomes of Math.random() differ by up to MaxStride / RandDenom
MaxStride == 3

-----------------------------------------------------------------------------
(* JavaScript values *)

Undefined == "undefined"
TypeError == "TypeError"

\* arr[i] of a JavaScript array held as a sequence: undefined outside 0..length-1
ArrayAt(arr, i) == IF i \in 0 .. (Len(arr) - 1) THEN arr[i + 1] ELSE Undefined

\* Map.prototype.set and Map.prototype.get
MapSet(m, k, v) == [x \in (DOMAIN m) \cup {k} |-> IF x = k THEN v ELSE m[x]]
MapGet(m, k) == IF k \in DOMAIN m THEN m[k] ELSE Undefined
\* `v !== undefined` for v read from an array or a Map that stores no undefined
ArrayHas(arr, i) == i \in 0 .. (Len(arr) - 1)
MapHas(m, k) == k \in DOMAIN m
EmptyMap == [x \in {} |-> Undefined]
\* the elements of an array
Range(seq) == {seq[i] : i \in 1 .. Len(seq)}

-----------------------------------------------------------------------------
(* Pattern catalog: src/js/tileRenderer.js *)

EMPTY == 0
DIGGABLE == 1
UNDIGGABLE == 2
TerrainTypes == {EMPTY, DIGGABLE, UNDIGGABLE}

TILEMAP_COLUMNS == 10
TILEMAP_ROWS == 8
TOTAL_TILES == 80

\* the template literal `${tl},${tr},${bl},${br}`: the four numbers in this
\* order, comma separated; on integers two keys are equal exactly when the
\* four numbers are, which is what the 4-tuple keeps
PatternKey(tl, tr, bl, br) == <<tl, tr, bl, br>>

\* the test guarding `continue` in generateAllPatterns
SkipPattern_NoSkip(tl, tr, bl, br) == FALSE
SkipPattern(tl, tr, bl, br) == tl = 0 /\ tr = 0 /\ bl = 0 /\ br = 0

\* the object pushed by generateAllPatterns (patternName, a label the
\* lookups never read, is left out)
PatternEntry_SwappedCorners(tl, tr, bl, br, index) ==
    [tl |-> tl, tr |-> bl, bl |-> tr, br |-> br, index |-> index,
     gridX |-> index % TILEMAP_COLUMNS, gridY |-> index \div TILEMAP_COLUMNS]
PatternEntry_RowsForColumns(tl, tr, bl, br, index) ==
    [tl |-> tl, tr |-> tr, bl |-> bl, br |-> br, index |-> index,
     gridX |-> index % TILEMAP_ROWS, gridY |-> index \div TILEMAP_COLUMNS]
PatternEntry(tl, tr, bl, br, index) ==
    [tl |-> tl, tr |-> tr, bl |-> bl, br |-> br, index |-> index,
     gridX |-> index % TILEMAP_COLUMNS, gridY |-> index \div TILEMAP_COLUMNS]

\* the four nested for-loops of generateAllPatterns, tl outermost and br
\* innermost, each running 0..2; a loop carries st: `index` (the entries
\* pushed so far) and the array.  (st.index >= 0 always holds; reading it at
\* the head of an iteration makes TLC compute st before going on.)
RECURSIVE BrLoop(_, _, _, _, _)
BrLoop(tl, tr, bl, br, st) ==
    IF br > 2 \/ st.index < 0 THEN st
    ELSE IF SkipPattern(tl, tr, bl, br) THEN BrLoop(tl, tr, bl, br + 1, st)
    ELSE BrLoop(tl, tr, bl, br + 1,
             [index |-> st.index + 1,
              patterns |-> Append(st.patterns,
                                  PatternEntry(tl, tr, bl, br, st.index))])

RECURSIVE BlLoop(_, _, _, _)
BlLoop(tl, tr, bl, st) ==
    IF bl > 2 THEN st ELSE BlLoop(tl, tr, bl + 1, BrLoop(tl, tr, bl, 0, st))

RECURSIVE TrLoop(_, _, _)
TrLoop(tl, tr, st) ==
    IF tr > 2 THEN st ELSE TrLoop(tl, tr + 1, BlLoop(tl, tr, 0, st))

RECURSIVE TlLoop(_, _)
TlLoop(tl, st) ==
    IF tl > 2 THEN st ELSE TlLoop(tl + 1, TrLoop(tl, 0, st))

\* TILE_PATTERNS after generateAllPatterns() has pushed onto `patterns`
generateAllPatterns(patterns) ==
    TlLoop(0, [index |-> 0, patterns |-> patterns]).patterns

\* the for-of loop of initializePatternLookup: one Map.set per entry, in
\* array order, so a key set twice keeps the index of its last entry
KeyOf(pattern) == PatternKey(pattern.tl, pattern.tr, pattern.bl, pattern.br)
LookupLoop(patterns, lookup) ==
    LET set == {KeyOf(patterns[i]) : i \in 1 .. Len(patterns)}
        last(k) == CHOOSE i \in 1 .. Len(patterns) :
                       /\ KeyOf(patterns[i]) = k
                       /\ \A j \in (i + 1) .. Len(patterns) : KeyOf(patterns[j]) # k
    IN  [k \in (DOMAIN lookup) \cup set |->
            IF k \in set THEN patterns[last(k)].index ELSE lookup[k]]

initializePatternLookup_EmptyIsTileZero(patterns, lookup) ==
    MapSet(LookupLoop(patterns, lookup), PatternKey(0, 0, 0, 0), 0)
initializePatternLookup(patterns, lookup) ==
    MapSet(LookupLoop(patterns, lookup), PatternKey(0, 0, 0, 0), -1)

getPatternIndex(tl, tr, bl, br) ==
    LET key == PatternKey(tl, tr, bl, br)
        index == MapGet(PATTERN_LOOKUP, key)
    IN  IF MapHas(PATTERN_LOOKUP, key) THEN index ELSE -1

\* the literal returned for index -1
EmptyPattern ==
    [tl |-> 0, tr |-> 0, bl |-> 0, br |-> 0, index |-> -1, gridX |-> 0, gridY |-> 0]

\* TILE_PATTERNS[index] || TILE_PATTERNS[0]: an entry is an object, hence
\* truthy; undefined is falsy
getPatternByIndex_OneBased(index) ==
    IF index = -1 THEN EmptyPattern
    ELSE IF ArrayHas(TILE_PATTERNS, index + 1)
         THEN ArrayAt(TILE_PATTERNS, index + 1)
         ELSE ArrayAt(TILE_PATTERNS, 0)
getPatternByIndex_NoSentinel(index) ==
    IF ArrayHas(TILE_PATTERNS, index)
    THEN ArrayAt(TILE_PATTERNS, index)
    ELSE ArrayAt(TILE_PATTERNS, 0)
getPatternByIndex(index) ==
    IF index = -1 THEN EmptyPattern
    ELSE IF ArrayHas(TILE_PATTERNS, index)
         THEN ArrayAt(TILE_PATTERNS, index)
         ELSE ArrayAt(TILE_PATTERNS, 0)

-----------------------------------------------------------------------------
(* Terrain grid and auto-tiler: src/js/dualGridSystem.js *)

\* .length of an array held as a function over 0..n-1
ArrayLength(arr) == Cardinality(DOMAIN arr)

\* baseGrid[y][x]: reading a property of undefined throws, reading past the
\* end of a row yields undefined
GridRead(grid, y, x) ==
    IF y \notin DOMAIN grid THEN TypeError
    ELSE IF x \notin DOMAIN grid[y] THEN Undefined
    ELSE grid[y][x]

\* the grid initializeGrid builds: every cell EMPTY
initializeGrid(w, h) == [y \in 0 .. (h - 1) |-> [x \in 0 .. (w - 1) |-> EMPTY]]

getTerrainAt_EmptyOutside(x, y) ==
    IF x < 0 \/ x >= width \/ y < 0 \/ y >= height
    THEN EMPTY
    ELSE GridRead(baseGrid, y, x)
getTerrainAt_Transposed(x, y) ==
    IF x < 0 \/ x >= width \/ y < 0 \/ y >= height
    THEN UNDIGGABLE
    ELSE GridRead(baseGrid, x, y)
getTerrainAt(x, y) ==
    IF x < 0 \/ x >= width \/ y < 0 \/ y >= height
    THEN UNDIGGABLE
    ELSE GridRead(baseGrid, y, x)

\* baseGrid after setTerrainAt(x, y, terrainType)
setTerrainAt_Clamped(x, y, terrainType) ==
    LET cx == IF x < 0 THEN 0 ELSE IF x >= width THEN width - 1 ELSE x
        cy == IF y < 0 THEN 0 ELSE IF y >= height THEN height - 1 ELSE y
    IN  [baseGrid EXCEPT ![cy][cx] = terrainType]
setTerrainAt(x, y, terrainType) ==
    IF x >= 0 /\ x < width /\ y >= 0 /\ y < height
    THEN [baseGrid EXCEPT ![y][x] = terrainType]
    ELSE baseGrid

\* digAt(x, y): the grid it leaves and the value it returns
digAt_AnythingButRock(x, y) ==
    IF getTerrainAt(x, y) # UNDIGGABLE
    THEN [grid |-> setTerrainAt(x, y, EMPTY), result |-> TRUE]
    ELSE [grid |-> baseGrid, result |-> FALSE]
digAt(x, y) ==
    IF getTerrainAt(x, y) = DIGGABLE
    THEN [grid |-> setTerrainAt(x, y, EMPTY), result |-> TRUE]
    ELSE [grid |-> baseGrid, result |-> FALSE]

getVisualTilePattern(visualX, visualY) ==
    [tl |-> getTerrainAt(visualX, visualY),
     tr |-> getTerrainAt(visualX + 1, visualY),
     bl |-> getTerrainAt(visualX, visualY + 1),
     br |-> getTerrainAt(visualX + 1, visualY + 1)]

getTileIndex(visualX, visualY) ==
    LET pattern == getVisualTilePattern(visualX, visualY)
        key == PatternKey(pattern.tl, pattern.tr, pattern.bl, pattern.br)
    IN  IF MapHas(PATTERN_LOOKUP, key) THEN PATTERN_LOOKUP[key] ELSE 0

\* the visual tiles
VisualTiles == {[x |-> vx, y |-> vy] : vx \in 0 .. (width - 1), vy \in 0 .. (height - 1)}

\* render(): it draws getTileIndex of every visual tile, which samples every
\* cell of the grid; what is kept of the drawing is the grid it was read from
render == baseGrid

\* the cells the visual tile t samples
Sampled(t, x, y) == x \in {t.x, t.x + 1} /\ y \in {t.y, t.y + 1}

\* updateVisualTiles(ctx, tiles): the drawing c with the tiles drawn again,
\* their cells read from the grid
updateVisualTiles(c, tiles) ==
    [y \in DOMAIN c |->
        [x \in DOMAIN c[y] |->
            IF \E i \in 1 .. Len(tiles) : Sampled(tiles[i], x, y)
            THEN getTerrainAt(x, y)
            ELSE c[y][x]]]

\* the candidate positions, in the order of the array literal, kept when
\* inside the visual grid
RECURSIVE FilterInGrid(_, _)
FilterInGrid(positions, affected) ==
    IF positions = <<>> THEN affected
    ELSE LET pos == Head(positions)
         IN  FilterInGrid(Tail(positions),
                 IF pos.x >= 0 /\ pos.x < width /\ pos.y >= 0 /\ pos.y < height
                 THEN Append(affected, pos)
                 ELSE affected)

getAffectedVisualTiles_NoDiagonal(baseX, baseY) ==
    FilterInGrid(<<[x |-> baseX, y |-> baseY - 1],
                   [x |-> baseX - 1, y |-> baseY],
                   [x |-> baseX, y |-> baseY]>>, <<>>)
getAffectedVisualTiles(baseX, baseY) ==
    FilterInGrid(<<[x |-> baseX - 1, y |-> baseY - 1],
                   [x |-> baseX, y |-> baseY - 1],
                   [x |-> baseX - 1, y |-> baseY],
                   [x |-> baseX, y |-> baseY]>>, <<>>)

-----------------------------------------------------------------------------
(* Inputs *)

\* arguments of the cell operations: every cell and one step beyond each edge
CoordX == -1 .. MaxW
CoordY == -1 .. MaxH

\* grids handed to setBaseGrid: MaxW x MaxH grids tiled from a 2x2 block
\* <<topLeft, topRight, bottomLeft, bottomRight>>, so that every 2x2 window
\* content occurs
Blocks == [1 .. 4 -> TerrainTypes]
Tiled(w, h, block) ==
    [y \in 0 .. (h - 1) |-> [x \in 0 .. (w - 1) |-> block[2 * (y % 2) + (x % 2) + 1]]]
BaseGrids == {Tiled(MaxW, MaxH, block) : block \in Blocks}

\* the cells of a grid, and what the grid holds in each
CellsOf(grid) ==
    {<<x, y>> : x \in 0 .. (ArrayLength(grid[0]) - 1), y \in 0 .. (ArrayLength(grid) - 1)}
ContentOf(grid) == [c \in CellsOf(grid) |-> grid[c[2]][c[1]]]

-----------------------------------------------------------------------------
(* Operations of DualGridSystem *)

\* new DualGridSystem(w, h, tileRenderer)
Constructor(w, h) ==
    /\ width = w
    /\ height = h
    /\ baseGrid = initializeGrid(w, h)
    /\ call = [name |-> "constructor"]
    /\ ret = Undefined
    /\ written = ContentOf(initializeGrid(w, h))
    /\ steps = 0

SetBaseGrid(grid) ==
    /\ baseGrid' = grid
    /\ height' = ArrayLength(grid)
    /\ width' = ArrayLength(grid[0])
    /\ call' = [name |-> "setBaseGrid"]
    /\ ret' = Undefined
    /\ written' = ContentOf(grid)
    /\ steps' = 0
    /\ UNCHANGED <<catalogVars, generatorVars, playerVars, displayVars, inputVars>>

SetTerrainAt(x, y, terrainType) ==
    /\ baseGrid' = setTerrainAt(x, y, terrainType)
    /\ call' = [name |-> "setTerrainAt", x |-> x, y |-> y, terrainType |-> terrainType]
    /\ ret' = Undefined
    /\ written' = IF <<x, y>> \in DOMAIN written
                  THEN [written EXCEPT ![<<x, y>>] = terrainType]
                  ELSE written
    /\ UNCHANGED <<width, height, catalogVars, generatorVars, playerVars, displayVars, inputVars>>

DigAt(x, y) ==
    /\ baseGrid' = digAt(x, y).grid
    /\ call' = [name |-> "digAt", x |-> x, y |-> y]
    /\ ret' = digAt(x, y).result
    /\ written' = IF <<x, y>> \in DOMAIN written /\ written[<<x, y>>] = DIGGABLE
                  THEN [written EXCEPT ![<<x, y>>] = EMPTY]
                  ELSE written
    /\ UNCHANGED <<width, height, catalogVars, generatorVars, playerVars, displayVars, inputVars>>

\* no grid exists while the catalog script runs
NoGrid ==
    /\ width = 0
    /\ height = 0
    /\ baseGrid = <<>>
    /\ written = EmptyMap
    /\ steps = 0

\* no MapGenerator has been constructed
NoGenerator == currentMapType = Undefined

\* no Player has been constructed
NoPlayer == player = Undefined

\* nothing has been drawn
NoCanvas == canvas = <<>>
\* no InputHandler yet, no keyboard event yet
NoEvent == [type |-> "none", key |-> ""]
NoInputHandler == keys = Undefined /\ event = NoEvent

-----------------------------------------------------------------------------
(* The catalog script and the lookups *)

\* arguments of the lookups: the valid ones and Slack beyond them
CornerArgs == (EMPTY - Slack) .. (UNDIGGABLE + Slack)
IndexArgs == (-1 - Slack) .. (TOTAL_TILES - 1 + Slack)

\* the statement `generateAllPatterns();`
GenerateAllPatterns ==
    /\ loadPc = "start"
    /\ loadPc' = "patterns"
    /\ TILE_PATTERNS' = generateAllPatterns(TILE_PATTERNS)
    /\ call' = [name |-> "generateAllPatterns"]
    /\ ret' = Undefined
    /\ UNCHANGED <<PATTERN_LOOKUP, gridVars, generatorVars, playerVars, displayVars, inputVars>>

\* the statement `initializePatternLookup();`
InitializePatternLookup ==
    /\ loadPc = "patterns"
    /\ loadPc' = "ready"
    /\ PATTERN_LOOKUP' = initializePatternLookup(TILE_PATTERNS, PATTERN_LOOKUP)
    /\ call' = [name |-> "initializePatternLookup"]
    /\ ret' = Undefined
    /\ UNCHANGED <<TILE_PATTERNS, gridVars, generatorVars, playerVars, displayVars, inputVars>>

\* a lookup changes nothing but call and ret, so the state after it is the
\* same whatever preceded it: the model looks up right after the script
GetPatternIndex(tl, tr, bl, br) ==
    /\ loadPc = "ready"
    /\ call.name = "initializePatternLookup"
    /\ call' = [name |-> "getPatternIndex", tl |-> tl, tr |-> tr, bl |-> bl, br |-> br]
    /\ ret' = getPatternIndex(tl, tr, bl, br)
    /\ UNCHANGED <<catalogVars, gridVars, generatorVars, playerVars, displayVars, inputVars>>

GetPatternByIndex(index) ==
    /\ loadPc = "ready"
    /\ call.name = "initializePatternLookup"
    /\ call' = [name |-> "getPatternByIndex", index |-> index]
    /\ ret' = getPatternByIndex(index)
    /\ UNCHANGED <<catalogVars, gridVars, generatorVars, playerVars, displayVars, inputVars>>

CatalogInit ==
    /\ loadPc = "start"
    /\ TILE_PATTERNS = <<>>
    /\ PATTERN_LOOKUP = EmptyMap
    /\ call = [name |-> "none"]
    /\ ret = Undefined
    /\ NoGrid
    /\ NoGenerator
    /\ NoPlayer
    /\ NoCanvas
    /\ NoInputHandler

CatalogNext ==
    \/ GenerateAllPatterns
    \/ InitializePatternLookup
    \/ \E tl \in CornerArgs, tr \in CornerArgs, bl \in CornerArgs, br \in CornerArgs :
           GetPatternIndex(tl, tr, bl, br)
    \/ \E index \in IndexArgs : GetPatternByIndex(index)

CatalogSpec == CatalogInit /\ [][CatalogNext]_vars

-----------------------------------------------------------------------------
(* The grid under its cell operations *)

\* the catalog script has run before any grid is built
CatalogLoaded ==
    /\ loadPc = "ready"
    /\ TILE_PATTERNS = generateAllPatterns(<<>>)
    /\ PATTERN_LOOKUP = initializePatternLookup(generateAllPatterns(<<>>), EmptyMap)

Init == CatalogLoaded /\ Constructor(MaxW, MaxH) /\ NoGenerator /\ NoPlayer /\ NoCanvas
        /\ NoInputHandler

\* setBaseGrid discards the grid it replaces, so the state it leads to is
\* the same from a grid that was operated on as from a fresh one: the model
\* replaces fresh grids only
ReplaceGrid ==
    /\ steps = 0
    /\ \E grid \in BaseGrids : SetBaseGrid(grid)

Next ==
    \/ ReplaceGrid
    \/ /\ steps < MaxOps
       /\ steps' = steps + 1
       /\ \E x \in CoordX, y \in CoordY, terrainType \in TerrainTypes :
              SetTerrainAt(x, y, terrainType)
    \/ /\ steps < MaxOps
       /\ steps' = steps + 1
       /\ \E x \in CoordX, y \in CoordY : DigAt(x, y)

Spec == Init /\ [][Next]_vars

\* digs only, MaxDigs of them in a row on one grid
DigNext ==
    \/ ReplaceGrid
    \/ /\ steps < MaxDigs
       /\ steps' = steps + 1
       /\ \E x \in CoordX, y \in CoordY : DigAt(x, y)

DigSpec == Init /\ [][DigNext]_vars

-----------------------------------------------------------------------------
(* Map generator: MapGenerator of src/unnamed/part_004 *)

MAP_WIDTH == 20
MAP_HEIGHT == 24
HOME_BASE_HEIGHT == 3
SEPARATOR_ROW == 3
NECK_START == 4
NECK_END == 8
BODY_START == 8
ENTRANCE_WIDTH == 3

\* the values of MAP_TYPES
BELL_JAR == "bellJar"
SIMPLE_BOX == "simpleBox"
OPEN_FIELD == "openField"
MAZE == "maze"
CAVERN == "cavern"
MAP_TYPES == {BELL_JAR, SIMPLE_BOX, OPEN_FIELD, MAZE, CAVERN}

\* JavaScript null, and the values `||` treats as absent
Null == "<null>"
Falsy(v) == v \in {Null, ""}

\* Math.random(): the outcomes are the multiples n / RandDenom of
\* 1 / RandDenom in [0, 1), held as the numerator n.  The outcomes during
\* one call of generateMap are rnd.seed, rnd.seed + rnd.stride,
\* rnd.seed + 2 rnd.stride, ... (modulo 1); Draw(rnd, k) is the k-th of them,
\* counting from 0.
Draw(rnd, k) == (rnd.seed + k * rnd.stride) % RandDenom
\* Math.random() < num / den, for the k-th outcome
Below(rnd, k, num, den) == Draw(rnd, k) * den < num * RandDenom
\* Math.floor(Math.random() * m), for the k-th outcome
FloorTimes(rnd, k, m) == (Draw(rnd, k) * m) \div RandDenom

\* the number of the cell (x, y) in a row-major loop over the body, from 0
BodyCellNumber(x, y) == (y - BODY_START) * (MAP_WIDTH - 2) + (x - 1)
\* Math.random() calls made by one such loop that draws once per cell
BodyDraws == (MAP_HEIGHT - 1 - BODY_START) * (MAP_WIDTH - 2)

createEmptyGrid ==
    [y \in 0 .. (MAP_HEIGHT - 1) |-> [x \in 0 .. (MAP_WIDTH - 1) |-> EMPTY]]

generateBorders_NoBottom(grid) ==
    [y \in DOMAIN grid |-> [x \in DOMAIN grid[y] |->
        IF x = 0 \/ x = MAP_WIDTH - 1 \/ y = 0
        THEN UNDIGGABLE ELSE grid[y][x]]]
generateBorders(grid) ==
    [y \in DOMAIN grid |-> [x \in DOMAIN grid[y] |->
        IF x = 0 \/ x = MAP_WIDTH - 1 \/ y = 0 \/ y = MAP_HEIGHT - 1
        THEN UNDIGGABLE ELSE grid[y][x]]]

generateHomeBase(grid) ==
    [y \in DOMAIN grid |-> [x \in DOMAIN grid[y] |->
        IF y >= 1 /\ y < HOME_BASE_HEIGHT /\ x >= 1 /\ x < MAP_WIDTH - 1
        THEN EMPTY ELSE grid[y][x]]]

\* the column the entrance starts at
entranceX == (MAP_WIDTH - ENTRANCE_WIDTH) \div 2
generateSeparatorWithEntrance_RowAbove(grid) ==
    [y \in DOMAIN grid |-> [x \in DOMAIN grid[y] |->
        IF y # SEPARATOR_ROW - 1 THEN grid[y][x]
        ELSE IF x >= entranceX /\ x < entranceX + ENTRANCE_WIDTH THEN DIGGABLE
        ELSE UNDIGGABLE]]
generateSeparatorWithEntrance_OffCentre(grid) ==
    [y \in DOMAIN grid |-> [x \in DOMAIN grid[y] |->
        IF y # SEPARATOR_ROW THEN grid[y][x]
        ELSE IF x >= entranceX + 1 /\ x < entranceX + 1 + ENTRANCE_WIDTH THEN DIGGABLE
        ELSE UNDIGGABLE]]
generateSeparatorWithEntrance(grid) ==
    [y \in DOMAIN grid |-> [x \in DOMAIN grid[y] |->
        IF y # SEPARATOR_ROW THEN grid[y][x]
        ELSE IF x >= entranceX /\ x < entranceX + ENTRANCE_WIDTH THEN DIGGABLE
        ELSE UNDIGGABLE]]

neckWidth == 8
neckStart == (MAP_WIDTH - neckWidth) \div 2
InNeckRows(y) == y >= NECK_START /\ y < NECK_END
InNeckCorridor(x) == x >= neckStart /\ x < neckStart + neckWidth
\* the number of the corridor cell (x, y) in a row-major loop over the neck
NeckCellNumber(x, y) == (y - NECK_START) * neckWidth + (x - neckStart)
\* Math.random() calls made by each of the two loops of generateNeck
NeckDraws == (NECK_END - NECK_START) * neckWidth

\* the first loop of generateNeck, its outcomes starting at the d-th: it
\* draws once per corridor cell, in row-major order, and not at all outside
\* the corridor
NeckFill_NoWalls(grid, rnd, d) ==
    [y \in DOMAIN grid |-> [x \in DOMAIN grid[y] |->
        IF ~(InNeckRows(y) /\ x >= 1 /\ x < MAP_WIDTH - 1) THEN grid[y][x]
        ELSE IF Below(rnd, d + NeckCellNumber(x, y), 3, 10) THEN DIGGABLE
        ELSE EMPTY]]
NeckFill(grid, rnd, d) ==
    [y \in DOMAIN grid |-> [x \in DOMAIN grid[y] |->
        IF ~(InNeckRows(y) /\ x >= 1 /\ x < MAP_WIDTH - 1) THEN grid[y][x]
        ELSE IF ~InNeckCorridor(x) THEN UNDIGGABLE
        ELSE IF Below(rnd, d + NeckCellNumber(x, y), 3, 10) THEN DIGGABLE
        ELSE EMPTY]]

\* the second loop: one draw per corridor cell, in row-major order
NeckObstacles(grid, rnd, d) ==
    [y \in DOMAIN grid |-> [x \in DOMAIN grid[y] |->
        IF InNeckRows(y) /\ InNeckCorridor(x) /\ Below(rnd, d + NeckCellNumber(x, y), 1, 10)
        THEN UNDIGGABLE
        ELSE grid[y][x]]]

generateNeck(grid, rnd, d) ==
    NeckObstacles(NeckFill(grid, rnd, d), rnd, d + NeckDraws)

\* Math.random() calls made by createBaseMapStructure
BaseDraws == 2 * NeckDraws

createBaseMapStructure(rnd) ==
    generateNeck(generateSeparatorWithEntrance(generateHomeBase(
        generateBorders(createEmptyGrid))), rnd, 0)

\* the body cells and the test the body loops make on them
InBody(x, y) == y >= BODY_START /\ y < MAP_HEIGHT - 1 /\ x >= 1 /\ x < MAP_WIDTH - 1

\* the random walk of one path of carveRandomPaths from row y on, the path
\* being at column x and the next outcome the k-th: one draw per row
RECURSIVE PathWalk(_, _, _, _, _)
PathWalk(grid, rnd, x, y, k) ==
    IF ~(y < MAP_HEIGHT - 2) THEN grid
    ELSE LET x2 == IF Below(rnd, k, 3, 10) /\ x > 2 THEN x - 1
                   ELSE IF Below(rnd, k, 6, 10) /\ x < MAP_WIDTH - 3 THEN x + 1
                   ELSE x
         IN  PathWalk([grid EXCEPT ![y][x] = EMPTY], rnd, x2, y + 1, k + 1)

\* the cells that walk writes, in the order it writes them
RECURSIVE PathCells(_, _, _, _)
PathCells(rnd, x, y, k) ==
    IF ~(y < MAP_HEIGHT - 2) THEN <<>>
    ELSE LET x2 == IF Below(rnd, k, 3, 10) /\ x > 2 THEN x - 1
                   ELSE IF Below(rnd, k, 6, 10) /\ x < MAP_WIDTH - 3 THEN x + 1
                   ELSE x
         IN  <<[x |-> x, y |-> y]>> \o PathCells(rnd, x2, y + 1, k + 1)

\* Math.random() calls made for one path: the start column and one per row
PathDraws == 1 + (MAP_HEIGHT - 2 - BODY_START)
numPaths == 2

RECURSIVE PathLoop(_, _, _, _)
PathLoop(grid, rnd, p, d) ==
    IF ~(p < numPaths) THEN grid
    ELSE PathLoop(PathWalk(grid, rnd, FloorTimes(rnd, d, MAP_WIDTH - 4) + 2,
                           BODY_START, d + 1),
                  rnd, p + 1, d + PathDraws)

carveRandomPaths(grid, rnd, d) == PathLoop(grid, rnd, 0, d)

\* the cells path p of carveRandomPaths writes, the first outcome of
\* carveRandomPaths being the d-th
CarvedBy(rnd, p, d) ==
    PathCells(rnd, FloorTimes(rnd, d + p * PathDraws, MAP_WIDTH - 4) + 2,
              BODY_START, d + p * PathDraws + 1)

\* the weighted fill of the body: one draw per body cell, in row-major order
BellJarFill(grid, rnd, d) ==
    [y \in DOMAIN grid |-> [x \in DOMAIN grid[y] |->
        IF ~InBody(x, y) THEN grid[y][x]
        ELSE IF Below(rnd, d + BodyCellNumber(x, y), 4, 100) THEN EMPTY
        ELSE IF Below(rnd, d + BodyCellNumber(x, y), 94, 100) THEN DIGGABLE
        ELSE UNDIGGABLE]]

generateBellJarPlayArea(grid, rnd, d) ==
    carveRandomPaths(BellJarFill(grid, rnd, d), rnd, d + BodyDraws)

generateSimpleBoxPlayArea_ShortBody(grid) ==
    [y \in DOMAIN grid |-> [x \in DOMAIN grid[y] |->
        IF InBody(x, y) /\ y < MAP_HEIGHT - 2 THEN DIGGABLE ELSE grid[y][x]]]
generateSimpleBoxPlayArea(grid) ==
    [y \in DOMAIN grid |-> [x \in DOMAIN grid[y] |->
        IF InBody(x, y) THEN DIGGABLE ELSE grid[y][x]]]

\* the centre of the i-th clearing or cavern, whose first outcome is the k-th
CentreX(rnd, k) == FloorTimes(rnd, k, MAP_WIDTH - 8) + 4
CentreY(rnd, k) == FloorTimes(rnd, k, MAP_HEIGHT - BODY_START - 4) + BODY_START + 2

numClearings == 3
clearingRadius == 2
\* createClearings: two draws per clearing; every write is of EMPTY, so a
\* cell ends EMPTY exactly when one of the clearings covers it
createClearings(grid, rnd, d) ==
    LET centres == {[x |-> CentreX(rnd, d + 2 * i), y |-> CentreY(rnd, d + 2 * i + 1)] :
                        i \in 0 .. (numClearings - 1)}
    IN  [y \in DOMAIN grid |-> [x \in DOMAIN grid[y] |->
            IF \E c \in centres :
                   LET dx == x - c.x
                       dy == y - c.y
                   IN  /\ dx >= -clearingRadius /\ dx <= clearingRadius
                       /\ dy >= -clearingRadius /\ dy <= clearingRadius
                       /\ x > 0 /\ x < MAP_WIDTH - 1
                       /\ y >= BODY_START /\ y < MAP_HEIGHT - 1
                       /\ dx * dx + dy * dy <= clearingRadius * clearingRadius
            THEN EMPTY
            ELSE grid[y][x]]]

OpenFieldFill(grid, rnd, d) ==
    [y \in DOMAIN grid |-> [x \in DOMAIN grid[y] |->
        IF ~InBody(x, y) THEN grid[y][x]
        ELSE IF Below(rnd, d + BodyCellNumber(x, y), 4, 10) THEN EMPTY
        ELSE IF Below(rnd, d + BodyCellNumber(x, y), 8, 10) THEN DIGGABLE
        ELSE UNDIGGABLE]]

generateOpenFieldPlayArea(grid, rnd, d) ==
    createClearings(OpenFieldFill(grid, rnd, d), rnd, d + BodyDraws)

\* the two wall loops of generateMazePlayArea visit the same cells: rows
\* BODY_START, BODY_START + 3, ... and columns 2, 5, ... of the body
MazeWall_Lines(x, y) ==
    /\ y >= BODY_START /\ y < MAP_HEIGHT - 1
    /\ x >= 2 /\ x < MAP_WIDTH - 1
    /\ ((y - BODY_START) % 3 = 0 \/ (x - 2) % 3 = 0)
MazeWall(x, y) ==
    /\ y >= BODY_START /\ y < MAP_HEIGHT - 1 /\ (y - BODY_START) % 3 = 0
    /\ x >= 2 /\ x < MAP_WIDTH - 1 /\ (x - 2) % 3 = 0

numOpenings == 8
\* the i-th opening, its first outcome the k-th
OpeningX(rnd, k) == FloorTimes(rnd, k, MAP_WIDTH - 2) + 1
OpeningY(rnd, k) == FloorTimes(rnd, k, MAP_HEIGHT - BODY_START - 1) + BODY_START

\* the body filled DIGGABLE, the walls stamped on it, the openings punched
\* last
generateMazePlayArea(grid, rnd, d) ==
    LET openings == {[x |-> OpeningX(rnd, d + 2 * i), y |-> OpeningY(rnd, d + 2 * i + 1)] :
                         i \in 0 .. (numOpenings - 1)}
    IN  [y \in DOMAIN grid |-> [x \in DOMAIN grid[y] |->
            IF [x |-> x, y |-> y] \in openings THEN EMPTY
            ELSE IF MazeWall(x, y) THEN UNDIGGABLE
            ELSE IF InBody(x, y) THEN DIGGABLE
            ELSE grid[y][x]]]

numCaverns == 4
\* the array `caverns`: three draws per cavern (x, y, radius); a cavern
\* keeps in r the outcome n its radius 2 + 2 n / RandDenom was made from
RECURSIVE CavernLoop(_, _, _, _)
CavernLoop(caverns, rnd, i, d) ==
    IF ~(i < numCaverns) THEN caverns
    ELSE CavernLoop(Append(caverns, [x |-> CentreX(rnd, d),
                                     y |-> CentreY(rnd, d + 1),
                                     r |-> Draw(rnd, d + 2)]),
                    rnd, i + 1, d + 3)

\* dist < cavern.r and dist < cavern.r + 1.5 for dist the square root of d2,
\* both sides squared and the denominators cleared
WithinRadius(d2, cavern) ==
    d2 * RandDenom * RandDenom < (2 * RandDenom + 2 * cavern.r) * (2 * RandDenom + 2 * cavern.r)
WithinRing(d2, cavern) ==
    4 * d2 * RandDenom * RandDenom < (7 * RandDenom + 4 * cavern.r) * (7 * RandDenom + 4 * cavern.r)

\* the for-of loop over the caverns at the cell (x, y) holding `value`
RECURSIVE CavernCell(_, _, _, _, _)
CavernCell(x, y, caverns, i, value) ==
    IF i > Len(caverns) THEN value
    ELSE LET cavern == caverns[i]
             d2 == (x - cavern.x) * (x - cavern.x) + (y - cavern.y) * (y - cavern.y)
         IN  CavernCell(x, y, caverns, i + 1,
                 IF WithinRadius(d2, cavern) THEN EMPTY
                 ELSE IF WithinRing(d2, cavern) THEN DIGGABLE
                 ELSE value)

\* the body filled UNDIGGABLE, then the chamber pass
CavernChambers(grid, caverns) ==
    [y \in DOMAIN grid |-> [x \in DOMAIN grid[y] |->
        IF InBody(x, y) THEN CavernCell(x, y, caverns, 1, UNDIGGABLE) ELSE grid[y][x]]]

\* the values a `while (v !== target) { ...; v += v < target ? 1 : -1 }` loop
\* started at `from` gives v in its body: from `from` up to, not including,
\* the target
Stepped(v, from, target) ==
    IF from < target THEN v >= from /\ v < target ELSE v <= from /\ v > target

\* connectCaverns: the horizontal leg runs in the row of c1, the vertical leg
\* in the column of c2; a write happens where `grid[y] && grid[y][x] !==
\* undefined`, that is at the cells of the grid; every write is of DIGGABLE
connectCaverns_NoVertical(grid, caverns) ==
    [y \in DOMAIN grid |-> [x \in DOMAIN grid[y] |->
        IF \E i \in 1 .. (Len(caverns) - 1) :
               LET c1 == caverns[i]
                   c2 == caverns[i + 1]
               IN  y = c1.y /\ Stepped(x, c1.x, c2.x)
        THEN DIGGABLE
        ELSE grid[y][x]]]
connectCaverns(grid, caverns) ==
    [y \in DOMAIN grid |-> [x \in DOMAIN grid[y] |->
        IF \E i \in 1 .. (Len(caverns) - 1) :
               LET c1 == caverns[i]
                   c2 == caverns[i + 1]
               IN  \/ y = c1.y /\ Stepped(x, c1.x, c2.x)
                   \/ x = c2.x /\ Stepped(y, c1.y, c2.y)
        THEN DIGGABLE
        ELSE grid[y][x]]]

generateCavernPlayArea(grid, rnd, d) ==
    LET caverns == CavernLoop(<<>>, rnd, 0, d)
    IN  connectCaverns(CavernChambers(grid, caverns), caverns)

\* the switch of generatePlayArea, the outcomes starting at the d-th
generatePlayArea_DefaultSimpleBox(grid, mapType, rnd, d) ==
    CASE mapType = BELL_JAR -> generateBellJarPlayArea(grid, rnd, d)
      [] mapType = SIMPLE_BOX -> generateSimpleBoxPlayArea(grid)
      [] mapType = OPEN_FIELD -> generateOpenFieldPlayArea(grid, rnd, d)
      [] mapType = MAZE -> generateMazePlayArea(grid, rnd, d)
      [] mapType = CAVERN -> generateCavernPlayArea(grid, rnd, d)
      [] OTHER -> generateSimpleBoxPlayArea(grid)
generatePlayArea(grid, mapType, rnd, d) ==
    CASE mapType = BELL_JAR -> generateBellJarPlayArea(grid, rnd, d)
      [] mapType = SIMPLE_BOX -> generateSimpleBoxPlayArea(grid)
      [] mapType = OPEN_FIELD -> generateOpenFieldPlayArea(grid, rnd, d)
      [] mapType = MAZE -> generateMazePlayArea(grid, rnd, d)
      [] mapType = CAVERN -> generateCavernPlayArea(grid, rnd, d)
      [] OTHER -> generateBellJarPlayArea(grid, rnd, d)

\* generateMap(mapType) of a generator whose currentMapType is current,
\* Math.random() yielding rnd
generateMapWith(current, mapType, rnd) ==
    LET typeToGenerate == IF Falsy(mapType) THEN current ELSE mapType
    IN  generatePlayArea(createBaseMapStructure(rnd), typeToGenerate, rnd, BaseDraws)

\* generateMap(mapType), Math.random() yielding rnd
generateMap(mapType, rnd) == generateMapWith(currentMapType, mapType, rnd)

\* currentMapType after setMapType(mapType)
setMapType_Unchecked(mapType) == mapType
setMapType(mapType) == IF mapType \in MAP_TYPES THEN mapType ELSE currentMapType

getPlayerStartPosition_BelowBase == [x |-> MAP_WIDTH \div 2, y |-> HOME_BASE_HEIGHT]
getPlayerStartPosition == [x |-> MAP_WIDTH \div 2, y |-> HOME_BASE_HEIGHT \div 2]

isInHomeBase(x, y) == y > 0 /\ y < HOME_BASE_HEIGHT /\ x > 0 /\ x < MAP_WIDTH - 1

-----------------------------------------------------------------------------
(* The map generator under its calls *)

\* arguments of setMapType and generateMap: the five strategy names and a
\* name that is none of them; generateMap also takes the empty name and no
\* argument, which `||` replaces by currentMapType
UnknownName == "unknown"
NameArgs == MAP_TYPES \cup {UnknownName}
\* the outcomes of Math.random() during one generateMap
RandomOutcomes == [seed : 0 .. (RandDenom - 1), stride : 0 .. MaxStride]

\* new MapGenerator()
GeneratorConstructor ==
    /\ currentMapType = BELL_JAR
    /\ call = [name |-> "MapGenerator"]
    /\ ret = Undefined

SetMapType(mapType) ==
    /\ currentMapType' = setMapType(mapType)
    /\ call' = [name |-> "setMapType", mapType |-> mapType]
    /\ ret' = Undefined
    /\ UNCHANGED <<catalogVars, gridVars, playerVars, displayVars, inputVars>>

GenerateMap(mapType, rnd) ==
    /\ ret' = generateMap(mapType, rnd)
    /\ call' = [name |-> "generateMap", mapType |-> mapType, random |-> rnd,
                paths |-> rnd, again |-> call.name = "generateMap"]
    /\ UNCHANGED <<currentMapType, catalogVars, gridVars, playerVars, displayVars, inputVars>>

GeneratorInit ==
    CatalogLoaded /\ NoGrid /\ GeneratorConstructor /\ NoPlayer /\ NoCanvas
    /\ NoInputHandler

\* generateMap leaves the generator as it found it, so a second generateMap
\* leads to the states the first one leads to: the model generates from the
\* states the constructor and setMapType leave
GeneratorNext ==
    \/ \E mapType \in NameArgs : SetMapType(mapType)
    \/ /\ call.name # "generateMap"
       /\ \E mapType \in NameArgs \cup {"", Null}, rnd \in RandomOutcomes :
              GenerateMap(mapType, rnd)

GeneratorSpec == GeneratorInit /\ [][GeneratorNext]_vars

\* generateMap('simpleBox') called again and again, Math.random() yielding
\* other outcomes each time
RepeatNext == \E rnd \in RandomOutcomes : GenerateMap(SIMPLE_BOX, rnd)

RepeatSpec == GeneratorInit /\ [][RepeatNext]_vars

\* generateMap('bellJar') where the outcomes of Math.random() take a new
\* start and a new stride when carveRandomPaths begins: rnd up to there,
\* paths from there on
GenerateBellJar(rnd, paths) ==
    /\ ret' = carveRandomPaths(
                  BellJarFill(createBaseMapStructure(rnd), rnd, BaseDraws),
                  paths, BaseDraws + BodyDraws)
    /\ call' = [name |-> "generateMap", mapType |-> BELL_JAR, random |-> rnd,
                paths |-> paths, again |-> call.name = "generateMap"]
    /\ UNCHANGED <<currentMapType, catalogVars, gridVars, playerVars, displayVars, inputVars>>

CarveNext ==
    /\ call.name # "generateMap"
    /\ \E rnd \in RandomOutcomes, paths \in RandomOutcomes : GenerateBellJar(rnd, paths)

CarveSpec == GeneratorInit /\ [][CarveNext]_vars

-----------------------------------------------------------------------------
(* The game: src/js/main.js, src/js/player.js and the InputHandler of
   src/unnamed/part_003 *)

\* canMoveTo(x, y)
canMoveTo_InBounds(x, y) ==
    ~(x < 0 \/ x >= width \/ y < 0 \/ y >= height)
canMoveTo(x, y) ==
    IF x < 0 \/ x >= width \/ y < 0 \/ y >= height
    THEN FALSE
    ELSE getTerrainAt(x, y) = EMPTY

\* the direction after move(dx, dy): set whether or not the player moved
Facing(dx, dy) ==
    IF dx # 0 \/ dy # 0 THEN [x |-> dx, y |-> dy] ELSE player.direction

\* move(dx, dy): the player it leaves and the value it returns
move(dx, dy) ==
    LET newX == player.x + dx
        newY == player.y + dy
    IN  IF canMoveTo(newX, newY)
        THEN [player |-> [x |-> newX, y |-> newY, direction |-> Facing(dx, dy)],
              result |-> TRUE]
        ELSE [player |-> [player EXCEPT !.direction = Facing(dx, dy)],
              result |-> FALSE]

\* dig(): the cell aimed at, the grid it leaves and the value it returns
digX == player.x + player.direction.x
digY == player.y + player.direction.y
dig_TilesAroundPlayer ==
    LET success == digAt(digX, digY).result
    IN  [grid |-> digAt(digX, digY).grid,
         success |-> success,
         result |-> IF success THEN getAffectedVisualTiles(player.x, player.y) ELSE Null]
dig ==
    LET success == digAt(digX, digY).result
    IN  [grid |-> digAt(digX, digY).grid,
         success |-> success,
         result |-> IF success THEN getAffectedVisualTiles(digX, digY) ELSE Null]

\* handleDig(affectedTiles), called with the array dig() returned: whether
\* it renders
handleDig(affectedTiles) == Len(affectedTiles) > 0

\* setPosition(x, y), canMove being what canMoveTo(x, y) answers
setPosition(x, y, canMove) ==
    IF canMove THEN [player EXCEPT !.x = x, !.y = y] ELSE player

\* canEditTile(x, y); the handler's mapGenerator is the game's, set by
\* setupTileEditingControls
canEditTile_AnyButPlayer(x, y) ==
    ~(player.x = x /\ player.y = y)
canEditTile(x, y) ==
    IF currentMapType # Undefined /\ isInHomeBase(x, y) THEN FALSE
    ELSE IF player.x = x /\ player.y = y THEN FALSE
    ELSE TRUE

\* cycleTileType(x, y): the type it writes
newType_NextNumber(currentType) == currentType + 1
newType(currentType) ==
    CASE currentType = EMPTY -> DIGGABLE
      [] currentType = DIGGABLE -> UNDIGGABLE
      [] currentType = UNDIGGABLE -> EMPTY
      [] OTHER -> EMPTY
cycleTileType(x, y) == setTerrainAt(x, y, newType(getTerrainAt(x, y)))

\* handleCanvasClick: the tile under the point (x, y) of the canvas
CANVAS_PADDING == 20
RENDER_TILE_SIZE == 32
tileX(x) == (x - CANVAS_PADDING) \div RENDER_TILE_SIZE
tileY(y) == (y - CANVAS_PADDING) \div RENDER_TILE_SIZE

\* handleCanvasClick: whether the click edits a tile
ClickEdits(altKey, x, y) ==
    IF ~altKey THEN FALSE
    ELSE IF tileX(x) < 0 \/ tileX(x) >= width \/ tileY(y) < 0 \/ tileY(y) >= height
    THEN FALSE
    ELSE canEditTile(tileX(x), tileY(y))

\* the history of the cell <<x, y>> after terrainType was written to it
Written(x, y, terrainType) ==
    IF <<x, y>> \in DOMAIN written
    THEN [written EXCEPT ![<<x, y>>] = terrainType]
    ELSE written

\* initialize(): the generator, the first map, the grid system holding it,
\* the player at the start position, facing down, and the first frame of
\* gameLoop
Initialize(rnd) ==
    /\ currentMapType = BELL_JAR
    /\ baseGrid = generateMap(Null, rnd)
    /\ height = ArrayLength(baseGrid)
    /\ width = ArrayLength(baseGrid[0])
    /\ written = ContentOf(baseGrid)
    /\ steps = 0
    /\ player = [x |-> getPlayerStartPosition.x, y |-> getPlayerStartPosition.y,
                 direction |-> [x |-> 0, y |-> 1]]
    /\ canvas = render
    /\ keys = EmptyMap
    /\ event = NoEvent
    /\ call = [name |-> "initialize", random |-> rnd]
    /\ ret = Undefined

\* the keydown callback of a movement key
KeyDownMove(dx, dy) ==
    /\ player' = move(dx, dy).player
    /\ call' = [name |-> "move", dx |-> dx, dy |-> dy]
    /\ ret' = move(dx, dy).result
    /\ UNCHANGED <<width, height, baseGrid, written, catalogVars, generatorVars,
                   displayVars>>

\* the keydown callback of the space key: dig(), then onDig, which is
\* handleDig, when dig() returned an array
KeyDownSpace ==
    /\ baseGrid' = dig.grid
    /\ written' = IF dig.success THEN Written(digX, digY, EMPTY) ELSE written
    /\ call' = [name |-> "dig", x |-> digX, y |-> digY]
    /\ ret' = dig.result
    /\ UNCHANGED <<width, height, catalogVars, generatorVars, playerVars>>
    /\ canvas' = IF dig.success /\ handleDig(dig.result) THEN render' ELSE canvas

\* the click listener of the canvas; cycleTileType ends in onTileChanged,
\* which is handleTileEdit: render(), then updateVisualTiles
HandleCanvasClick(altKey, x, y) ==
    /\ baseGrid' = IF ClickEdits(altKey, x, y)
                   THEN cycleTileType(tileX(x), tileY(y))
                   ELSE baseGrid
    /\ written' = IF ClickEdits(altKey, x, y)
                  THEN Written(tileX(x), tileY(y),
                               newType(getTerrainAt(tileX(x), tileY(y))))
                  ELSE written
    /\ call' = [name |-> "click", altKey |-> altKey,
                tileX |-> tileX(x), tileY |-> tileY(y),
                edited |-> ClickEdits(altKey, x, y),
                affectedTiles |-> IF ClickEdits(altKey, x, y)
                                  THEN getAffectedVisualTiles(tileX(x), tileY(y))
                                  ELSE <<>>]
    /\ ret' = Undefined
    /\ UNCHANGED <<width, height, catalogVars, generatorVars, playerVars>>
    /\ \E rendered \in {render'}, affectedTiles \in {call'.affectedTiles} :
           canvas' = IF ClickEdits(altKey, x, y)
                     THEN updateVisualTiles(rendered, affectedTiles)'
                     ELSE canvas

\* changeMapType(mapType): generateMap() runs on the generator setMapType
\* has left; nothing is drawn before the next frame
ChangeMapType(mapType, rnd) ==
    /\ currentMapType' = setMapType(mapType)
    /\ baseGrid' = generateMapWith(setMapType(mapType), Null, rnd)
    /\ height' = ArrayLength(baseGrid')
    /\ width' = ArrayLength(baseGrid'[0])
    /\ written' = ContentOf(baseGrid')
    /\ steps' = 0
    /\ player' = setPosition(getPlayerStartPosition.x, getPlayerStartPosition.y,
                             canMoveTo(getPlayerStartPosition.x,
                                       getPlayerStartPosition.y)')
    /\ call' = [name |-> "changeMapType", mapType |-> mapType, random |-> rnd]
    /\ ret' = Undefined
    /\ UNCHANGED <<catalogVars, displayVars>>

\* a frame of gameLoop: update() animates the player, render() draws the
\* grid.  A frame changes the canvas alone, the key handlers leave the canvas
\* alone and the handlers that change the grid render it themselves: a frame
\* taken later leads where the frame taken right after changeMapType leads
GameLoop ==
    /\ call.name = "changeMapType"
    /\ canvas' = render
    /\ UNCHANGED <<catalogVars, gridVars, generatorVars, playerVars, call, ret>>

\* the movements of getMovementFromKey
Movements == {<<0, -1>>, <<0, 1>>, <<-1, 0>>, <<1, 0>>}

\* the point in the middle of the tile
MidX(column) == CANVAS_PADDING + column * RENDER_TILE_SIZE + RENDER_TILE_SIZE \div 2
MidY(row) == CANVAS_PADDING + row * RENDER_TILE_SIZE + RENDER_TILE_SIZE \div 2

\* the points clicked: in the padding left of the grid, on a corner of the
\* home base, on the entrance and on the neck below it
ClickPoints ==
    {<<0, MidY(1)>>, <<MidX(1), MidY(1)>>}
    \cup {<<MidX(getPlayerStartPosition.x), MidY(row)>> : row \in SEPARATOR_ROW .. NECK_START}
\* the clicks: each point with the Alt key held, one without
Clicks ==
    {<<TRUE, point>> : point \in ClickPoints} \cup {<<FALSE, <<MidX(1), MidY(1)>> >>}

\* the outcomes of Math.random() the game is played with
GameOutcomes ==
    {rnd \in RandomOutcomes : rnd.stride = MaxStride /\ rnd.seed \in {0, RandDenom \div 2}}

GameInit == CatalogLoaded /\ \E rnd \in GameOutcomes : Initialize(rnd)

\* key presses and clicks explored on one map
MaxPlay == 3

\* changeMapType discards the grid and puts the player back on the start
\* position: of the state it is called in, only currentMapType and the
\* direction the player faces remain, and the states at most one movement
\* key away from a new map have them all.  The canvas it leaves alone shows
\* a map drawn earlier, which may be any map: the changes made once a frame
\* has drawn the map that is replaced lead to every state a change leads to
GameNext ==
    \/ /\ steps = 0 \/ (steps = 1 /\ call.name = "move")
       /\ canvas = baseGrid
       /\ \E mapType \in MAP_TYPES, rnd \in GameOutcomes : ChangeMapType(mapType, rnd)
       /\ UNCHANGED inputVars
    \/ /\ steps < MaxPlay
       /\ steps' = steps + 1
       /\ \E m \in Movements : KeyDownMove(m[1], m[2])
       /\ UNCHANGED inputVars
    \/ /\ steps < MaxPlay
       /\ steps' = steps + 1
       /\ KeyDownSpace
       /\ UNCHANGED inputVars
    \/ /\ steps < MaxPlay
       /\ steps' = steps + 1
       /\ \E click \in Clicks : HandleCanvasClick(click[1], click[2][1], click[2][2])
       /\ UNCHANGED inputVars
    \/ GameLoop /\ UNCHANGED inputVars

GameSpec == GameInit /\ [][GameNext]_vars

\* The keyboard.  GameSpec takes the callbacks setupPlayerControls registers
\* as its steps; KeySpec takes the listeners of the document, which call
\* them: handleKeyDown and handleKeyUp, on the game initialize() leaves.
KEY_CODES ==
    [ARROW_UP |-> "ArrowUp", ARROW_DOWN |-> "ArrowDown", ARROW_LEFT |-> "ArrowLeft",
     ARROW_RIGHT |-> "ArrowRight", SPACE |-> " ", W |-> "w", A |-> "a", S |-> "s",
     D |-> "d", SHIFT |-> "Shift"]
movementKeys ==
    {KEY_CODES.ARROW_UP, KEY_CODES.ARROW_DOWN, KEY_CODES.ARROW_LEFT,
     KEY_CODES.ARROW_RIGHT, KEY_CODES.W, KEY_CODES.A, KEY_CODES.S, KEY_CODES.D}

getMovementFromKey(key) ==
    CASE key \in {KEY_CODES.ARROW_UP, KEY_CODES.W} -> [dx |-> 0, dy |-> -1]
      [] key \in {KEY_CODES.ARROW_DOWN, KEY_CODES.S} -> [dx |-> 0, dy |-> 1]
      [] key \in {KEY_CODES.ARROW_LEFT, KEY_CODES.A} -> [dx |-> -1, dy |-> 0]
      [] key \in {KEY_CODES.ARROW_RIGHT, KEY_CODES.D} -> [dx |-> 1, dy |-> 0]
      [] OTHER -> [dx |-> 0, dy |-> 0]

\* !this.keys[key]: a key never seen reads undefined
NotHeld_Always(key) == TRUE
NotHeld(key) == ~(MapHas(keys, key) /\ keys[key])

\* keyDownHandlers.get(key)(event), for the keys that have a handler
KeyDownHandler(key) ==
    IF key \in movementKeys
    THEN /\ steps' = steps + 1
         /\ KeyDownMove(getMovementFromKey(key).dx, getMovementFromKey(key).dy)
    ELSE IF key = KEY_CODES.SPACE
    THEN /\ steps' = steps + 1
         /\ KeyDownSpace
    ELSE UNCHANGED <<catalogVars, gridVars, generatorVars, playerVars, displayVars,
                     call, ret>>

HandleKeyDown(key) ==
    /\ event' = [type |-> "keydown", key |-> key]
    /\ IF NotHeld(key)
       THEN /\ keys' = MapSet(keys, key, TRUE)
            /\ KeyDownHandler(key)
       ELSE UNCHANGED <<keys, catalogVars, gridVars, generatorVars, playerVars,
                        displayVars, call, ret>>

\* no handler is registered with onKeyUp
HandleKeyUp(key) ==
    /\ event' = [type |-> "keyup", key |-> key]
    /\ keys' = MapSet(keys, key, FALSE)
    /\ UNCHANGED <<catalogVars, gridVars, generatorVars, playerVars, displayVars,
                   call, ret>>

\* the keys of the events: two keys that move the same way, a key that moves
\* another way, the key that digs and a key without a handler
EventKeys ==
    {KEY_CODES.ARROW_DOWN, KEY_CODES.S, KEY_CODES.ARROW_LEFT, KEY_CODES.SPACE,
     KEY_CODES.SHIFT}

\* a key held down repeats its keydown; steps counts the handlers called
KeyNext ==
    \/ /\ steps < MaxPlay
       /\ \E key \in EventKeys : HandleKeyDown(key)
    \/ \E key \in EventKeys : HandleKeyUp(key)

KeySpec == GameInit /\ [][KeyNext]_vars

-----------------------------------------------------------------------------
(* Properties of the pattern catalog (CatalogSpec) *)

Corners(pattern) == <<pattern.tl, pattern.tr, pattern.bl, pattern.br>>
AllCorners == TerrainTypes \X TerrainTypes \X TerrainTypes \X TerrainTypes
CatalogCorners == AllCorners \ {<<EMPTY, EMPTY, EMPTY, EMPTY>>}
PatternsGenerated == loadPc \in {"patterns", "ready"}

\* C4: once generateAllPatterns has run, TILE_PATTERNS has exactly 80
\* entries, each 4-tuple over {0,1,2} other than (0,0,0,0) is the corners of
\* exactly one entry, and the index values are exactly 0..79, none repeated.
C4_CatalogComplete ==
    PatternsGenerated =>
        /\ Len(TILE_PATTERNS) = TOTAL_TILES
        /\ \A c \in CatalogCorners :
               Cardinality({i \in 1 .. Len(TILE_PATTERNS) : Corners(TILE_PATTERNS[i]) = c}) = 1
        /\ \A i \in 1 .. Len(TILE_PATTERNS) : Corners(TILE_PATTERNS[i]) \in CatalogCorners
        /\ {TILE_PATTERNS[i].index : i \in 1 .. Len(TILE_PATTERNS)} = 0 .. (TOTAL_TILES - 1)
        /\ \A i, j \in 1 .. Len(TILE_PATTERNS) :
               TILE_PATTERNS[i].index = TILE_PATTERNS[j].index => i = j

C4_Witness ==
    /\ call.name = "generateAllPatterns"
    /\ Len(TILE_PATTERNS) = TOTAL_TILES
    /\ Corners(TILE_PATTERNS[TOTAL_TILES]) = <<UNDIGGABLE, UNDIGGABLE, UNDIGGABLE, UNDIGGABLE>>

\* C5: the lookups are mutually inverse: for each of the 80 catalog patterns
\* p, getPatternByIndex(getPatternIndex(p)) has the corners p, and for each
\* index i in 0..79, getPatternIndex of the corners of getPatternByIndex(i)
\* is i.
C5_LookupsInverse ==
    loadPc = "ready" =>
        /\ \A c \in CatalogCorners :
               Corners(getPatternByIndex(getPatternIndex(c[1], c[2], c[3], c[4]))) = c
        /\ \A i \in 0 .. (TOTAL_TILES - 1) :
               LET p == getPatternByIndex(i)
               IN  getPatternIndex(p.tl, p.tr, p.bl, p.br) = i

C5_Witness ==
    /\ call.name = "getPatternByIndex"
    /\ call.index = TOTAL_TILES - 1
    /\ getPatternIndex(ret.tl, ret.tr, ret.bl, ret.br) = TOTAL_TILES - 1

\* C6: getPatternIndex(0,0,0,0) is -1, no catalog pattern maps to -1, and
\* getPatternByIndex(-1) is the all-Empty entry at atlas position (0,0).
C6_EmptySentinel ==
    loadPc = "ready" =>
        /\ getPatternIndex(EMPTY, EMPTY, EMPTY, EMPTY) = -1
        /\ \A c \in CatalogCorners : getPatternIndex(c[1], c[2], c[3], c[4]) # -1
        /\ Corners(getPatternByIndex(-1)) = <<EMPTY, EMPTY, EMPTY, EMPTY>>
        /\ getPatternByIndex(-1).index = -1
        /\ getPatternByIndex(-1).gridX = 0
        /\ getPatternByIndex(-1).gridY = 0

C6_Witness ==
    /\ call.name = "getPatternIndex"
    /\ <<call.tl, call.tr, call.bl, call.br>> = <<EMPTY, EMPTY, EMPTY, EMPTY>>
    /\ ret = -1

\* C7: indices follow the nesting order tl, tr, bl, br with the all-zero
\* tuple skipped: every entry has index 27*tl + 9*tr + 3*bl + br - 1.
C7_NestingOrder ==
    PatternsGenerated =>
        \A i \in 1 .. Len(TILE_PATTERNS) :
            LET p == TILE_PATTERNS[i]
            IN  p.index = 27 * p.tl + 9 * p.tr + 3 * p.bl + p.br - 1

C7_Witness ==
    /\ PatternsGenerated
    /\ \E i \in 1 .. Len(TILE_PATTERNS) :
           /\ Corners(TILE_PATTERNS[i]) = <<DIGGABLE, UNDIGGABLE, EMPTY, DIGGABLE>>
           /\ TILE_PATTERNS[i].index = 45

\* C8: every entry has gridX = index mod TILEMAP_COLUMNS and gridY = index
\* div TILEMAP_COLUMNS; the atlas positions are pairwise distinct and lie
\* inside the TILEMAP_COLUMNS x TILEMAP_ROWS atlas.
C8_AtlasPositions ==
    PatternsGenerated =>
        /\ \A i \in 1 .. Len(TILE_PATTERNS) :
               LET p == TILE_PATTERNS[i]
               IN  /\ p.gridX = p.index % TILEMAP_COLUMNS
                   /\ p.gridY = p.index \div TILEMAP_COLUMNS
                   /\ p.gridX \in 0 .. (TILEMAP_COLUMNS - 1)
                   /\ p.gridY \in 0 .. (TILEMAP_ROWS - 1)
        /\ \A i, j \in 1 .. Len(TILE_PATTERNS) :
               (/\ TILE_PATTERNS[i].gridX = TILE_PATTERNS[j].gridX
                /\ TILE_PATTERNS[i].gridY = TILE_PATTERNS[j].gridY) => i = j

C8_Witness ==
    /\ PatternsGenerated
    /\ Len(TILE_PATTERNS) = TOTAL_TILES
    /\ TILE_PATTERNS[TOTAL_TILES].gridX = TILEMAP_COLUMNS - 1
    /\ TILE_PATTERNS[TOTAL_TILES].gridY = TILEMAP_ROWS - 1

-----------------------------------------------------------------------------
(* Properties of the terrain grid and the auto-tiler (Spec, DigSpec) *)

InBounds(x, y) == x >= 0 /\ x < width /\ y >= 0 /\ y < height
IsCellWrite(c) == c.name \in {"setTerrainAt", "digAt"}
SameSize == width' = width /\ height' = height /\ DOMAIN baseGrid' = DOMAIN baseGrid
OtherCellsKept(x, y) ==
    \A y2 \in 0 .. (height - 1) :
        /\ DOMAIN baseGrid'[y2] = DOMAIN baseGrid[y2]
        /\ \A x2 \in 0 .. (width - 1) :
               <<x2, y2>> # <<x, y>> => baseGrid'[y2][x2] = baseGrid[y2][x2]

\* C1: after setTerrainAt or digAt at an in-bounds cell (cx, cy), every
\* visual tile of [0,width) x [0,height) whose getTileIndex differs from
\* before the call is in getAffectedVisualTiles(cx, cy).  (cx, cy) are the
\* arguments recorded in call'; the write leaves width and height alone, so
\* the list is the same before and after it.
C1_DirtyComplete ==
    [][(IsCellWrite(call') /\ InBounds(call'.x, call'.y)) =>
           LET affected == Range(getAffectedVisualTiles(call'.x, call'.y))
           IN \A t \in VisualTiles \ affected :
                   getTileIndex(t.x, t.y)' = getTileIndex(t.x, t.y)]_vars

C1_Witness ==
    /\ call.name = "digAt"
    /\ call.x = 1 /\ call.y = 1
    /\ ret = TRUE
    /\ width >= 3 /\ height >= 3
    /\ Len(getAffectedVisualTiles(1, 1)) = 4

\* C2: when setTerrainAt or digAt changes the state of an in-bounds cell
\* (cx, cy), every tile of getAffectedVisualTiles(cx, cy) has a getTileIndex
\* after the call that differs from the one before.
C2_DirtyMinimal ==
    [][(/\ IsCellWrite(call') /\ InBounds(call'.x, call'.y)
        /\ baseGrid'[call'.y][call'.x] # baseGrid[call'.y][call'.x]) =>
           \A t \in Range(getAffectedVisualTiles(call'.x, call'.y)) :
               getTileIndex(t.x, t.y)' # getTileIndex(t.x, t.y)]_vars

\* setTerrainAt(0, 0, DIGGABLE) has changed a grid that was EMPTY throughout
\* (no grid handed to setBaseGrid differs from its own cell (2, 0) at (0, 0))
C2_Witness ==
    /\ call.name = "setTerrainAt"
    /\ call.x = 0 /\ call.y = 0 /\ call.terrainType = DIGGABLE
    /\ \A c \in DOMAIN written : written[c] = (IF c = <<0, 0>> THEN DIGGABLE ELSE EMPTY)
    /\ getTileIndex(0, 0) = getPatternIndex(DIGGABLE, EMPTY, EMPTY, EMPTY)

\* C3: digAt(x, y) returns true exactly when (x, y) is in bounds and
\* Diggable, and then the cell becomes Empty and no other cell changes;
\* otherwise it returns false and the grid is unchanged; a digAt that
\* directly follows a digAt of the same cell returns false.
C3_DigLegality ==
    [][call'.name = "digAt" =>
           LET x == call'.x
               y == call'.y
               diggable == InBounds(x, y) /\ baseGrid[y][x] = DIGGABLE
           IN  /\ ret' = diggable
               /\ SameSize
               /\ diggable => baseGrid'[y][x] = EMPTY /\ OtherCellsKept(x, y)
               /\ ~diggable => baseGrid' = baseGrid
               /\ (call.name = "digAt" /\ call.x = x /\ call.y = y) =>
                      ret' = FALSE /\ baseGrid' = baseGrid]_vars

\* the second of two digAt(0, 0): the first one emptied the cell (cell
\* (2, 0), equal to it in every grid handed to setBaseGrid, is still Diggable)
C3_Witness ==
    /\ call.name = "digAt"
    /\ call.x = 0 /\ call.y = 0
    /\ ret = FALSE
    /\ steps = 2
    /\ baseGrid[0][0] = EMPTY
    /\ baseGrid[0][2] = DIGGABLE

\* C9: getTerrainAt never fails: it returns Undiggable for every coordinate
\* with x < 0, x >= width, y < 0 or y >= height, and for every in-bounds
\* coordinate the state last written to that cell.
C9_ReadContract ==
    \A x \in CoordX, y \in CoordY :
        /\ getTerrainAt(x, y) \in TerrainTypes
        /\ (x < 0 \/ x >= width \/ y < 0 \/ y >= height) => getTerrainAt(x, y) = UNDIGGABLE
        /\ InBounds(x, y) => <<x, y>> \in DOMAIN written /\ getTerrainAt(x, y) = written[<<x, y>>]

\* a cell overwritten by setTerrainAt reads back the new state, a cell
\* beyond the right edge reads Undiggable
C9_Witness ==
    /\ call.name = "setTerrainAt"
    /\ call.x = 2 /\ call.y = 1 /\ call.terrainType = DIGGABLE
    /\ getTerrainAt(2, 1) = DIGGABLE
    /\ getTerrainAt(0, 1) = EMPTY
    /\ getTerrainAt(width, 1) = UNDIGGABLE

\* C10: setTerrainAt with an out-of-bounds coordinate leaves every cell,
\* width and height unchanged; with an in-bounds coordinate it changes at
\* most the addressed cell, which then holds the state passed.
C10_WriteFrame ==
    [][call'.name = "setTerrainAt" =>
           LET x == call'.x
               y == call'.y
           IN  /\ SameSize
               /\ ~InBounds(x, y) => baseGrid' = baseGrid
               /\ InBounds(x, y) =>
                      /\ OtherCellsKept(x, y)
                      /\ baseGrid'[y][x] = call'.terrainType]_vars

C10_Witness ==
    /\ call.name = "setTerrainAt"
    /\ call.x = width /\ call.y = -1
    /\ call.terrainType = DIGGABLE
    /\ \E c \in DOMAIN written : written[c] = UNDIGGABLE

\* C11: whatever the grid holds, a visual tile in the last column samples
\* its two right corners, and a visual tile in the last row its two bottom
\* corners, as Undiggable (they lie outside the grid), and getTileIndex of
\* such a tile is never the all-Empty sentinel -1.
C11_EdgesEnclosed ==
    \A t \in VisualTiles :
        LET pattern == getVisualTilePattern(t.x, t.y)
        IN  /\ t.x = width - 1 => pattern.tr = UNDIGGABLE /\ pattern.br = UNDIGGABLE
            /\ t.y = height - 1 => pattern.bl = UNDIGGABLE /\ pattern.br = UNDIGGABLE
            /\ (t.x = width - 1 \/ t.y = height - 1) => getTileIndex(t.x, t.y) # -1

\* a grid that is Empty throughout: the interior tile (0, 0) is the
\* sentinel, the edge tiles are not
C11_Witness ==
    /\ call.name = "setBaseGrid"
    /\ \A c \in DOMAIN written : written[c] = EMPTY
    /\ getTileIndex(0, 0) = -1
    /\ getTileIndex(width - 1, 0) = getPatternIndex(EMPTY, UNDIGGABLE, EMPTY, UNDIGGABLE)
    /\ getTileIndex(0, height - 1) = getPatternIndex(EMPTY, EMPTY, UNDIGGABLE, UNDIGGABLE)
    /\ getTileIndex(width - 1, height - 1) # -1

-----------------------------------------------------------------------------
(* Properties of the map generator (GeneratorSpec) *)

\* generateMap has returned a grid
MapGenerated == call.name = "generateMap"
\* the grid is MAP_HEIGHT rows of MAP_WIDTH cells, each one of the three states
WellFormedMap(grid) ==
    /\ DOMAIN grid = 0 .. (MAP_HEIGHT - 1)
    /\ \A y \in DOMAIN grid :
           /\ DOMAIN grid[y] = 0 .. (MAP_WIDTH - 1)
           /\ \A x \in DOMAIN grid[y] : grid[y][x] \in TerrainTypes

\* C12: whatever the strategy and the outcomes of Math.random(), the grid
\* generateMap returns is MAP_HEIGHT x MAP_WIDTH and every cell of row 0,
\* row MAP_HEIGHT-1, column 0 and column MAP_WIDTH-1 is Undiggable.
C12_BorderRing ==
    MapGenerated =>
        /\ WellFormedMap(ret)
        /\ \A x \in 0 .. (MAP_WIDTH - 1) :
               ret[0][x] = UNDIGGABLE /\ ret[MAP_HEIGHT - 1][x] = UNDIGGABLE
        /\ \A y \in 0 .. (MAP_HEIGHT - 1) :
               ret[y][0] = UNDIGGABLE /\ ret[y][MAP_WIDTH - 1] = UNDIGGABLE

\* a maze whose opening fell into the corner of the body next to the border
C12_Witness ==
    /\ MapGenerated
    /\ call.mapType = MAZE
    /\ ret[MAP_HEIGHT - 2][MAP_WIDTH - 2] = EMPTY
    /\ ret[MAP_HEIGHT - 1][MAP_WIDTH - 2] = UNDIGGABLE
    /\ ret[MAP_HEIGHT - 2][MAP_WIDTH - 1] = UNDIGGABLE

\* C13: whatever the strategy and the outcomes of Math.random(), every cell
\* (x, y) with 1 <= x <= MAP_WIDTH-2 and 1 <= y <= HOME_BASE_HEIGHT-1 of the
\* grid generateMap returns is Empty.
C13_HomeBaseEmpty ==
    MapGenerated =>
        \A x \in 1 .. (MAP_WIDTH - 2), y \in 1 .. (HOME_BASE_HEIGHT - 1) :
            ret[y][x] = EMPTY

\* the map generateMap() makes at start-up, the separator right below the
\* home base
C13_Witness ==
    /\ MapGenerated
    /\ call.mapType = Null
    /\ ret[HOME_BASE_HEIGHT - 1][1] = EMPTY
    /\ ret[HOME_BASE_HEIGHT - 1][MAP_WIDTH - 2] = EMPTY
    /\ ret[HOME_BASE_HEIGHT][1] = UNDIGGABLE

\* C14: whatever the strategy and the outcomes of Math.random(), row
\* SEPARATOR_ROW of the generated grid holds exactly ENTRANCE_WIDTH Diggable
\* cells, in the columns floor((MAP_WIDTH - ENTRANCE_WIDTH) / 2) and the
\* ENTRANCE_WIDTH - 1 next ones, and Undiggable in every other column.
C14_SeparatorEntrance ==
    MapGenerated =>
        LET first == (MAP_WIDTH - ENTRANCE_WIDTH) \div 2
            gap == {x \in 0 .. (MAP_WIDTH - 1) : ret[SEPARATOR_ROW][x] = DIGGABLE}
        IN  /\ Cardinality(gap) = ENTRANCE_WIDTH
            /\ gap = first .. (first + ENTRANCE_WIDTH - 1)
            /\ \A x \in (0 .. (MAP_WIDTH - 1)) \ gap : ret[SEPARATOR_ROW][x] = UNDIGGABLE

\* a cavern map: the gap is columns 8, 9, 10
C14_Witness ==
    /\ MapGenerated
    /\ call.mapType = CAVERN
    /\ ret[SEPARATOR_ROW][7] = UNDIGGABLE
    /\ ret[SEPARATOR_ROW][8] = DIGGABLE
    /\ ret[SEPARATOR_ROW][10] = DIGGABLE
    /\ ret[SEPARATOR_ROW][11] = UNDIGGABLE

\* C15: for every strategy and every generated map, getPlayerStartPosition()
\* is (floor(MAP_WIDTH / 2), floor(HOME_BASE_HEIGHT / 2)), isInHomeBase holds
\* of it and the generated grid holds Empty there.
C15_SpawnInHomeBase ==
    MapGenerated =>
        LET startPos == getPlayerStartPosition
        IN  /\ startPos.x = MAP_WIDTH \div 2
            /\ startPos.y = HOME_BASE_HEIGHT \div 2
            /\ isInHomeBase(startPos.x, startPos.y)
            /\ ret[startPos.y][startPos.x] = EMPTY

\* an open-field map made after setMapType: the spawn is (10, 1)
C15_Witness ==
    /\ MapGenerated
    /\ call.mapType = Null
    /\ currentMapType = OPEN_FIELD
    /\ getPlayerStartPosition = [x |-> 10, y |-> 1]
    /\ ret[1][10] = EMPTY

\* cells <<x, y>> of a grid that are not Undiggable, and the four cells
\* sharing an edge with a cell
Passable(grid, c) ==
    /\ c[2] \in DOMAIN grid
    /\ c[1] \in DOMAIN grid[c[2]]
    /\ grid[c[2]][c[1]] # UNDIGGABLE
Adjacent(c) ==
    {<<c[1] - 1, c[2]>>, <<c[1] + 1, c[2]>>, <<c[1], c[2] - 1>>, <<c[1], c[2] + 1>>}

\* some chain of edge-sharing passable cells leads from a cell of `frontier`
\* to a cell in row `row` or below; `seen` are the cells already visited
RECURSIVE ReachesRow(_, _, _, _)
ReachesRow(grid, seen, frontier, row) ==
    IF frontier = {} THEN FALSE
    ELSE IF \E c \in frontier : c[2] >= row THEN TRUE
    ELSE LET next == {n \in UNION {Adjacent(c) : c \in frontier} :
                         n \notin seen /\ Passable(grid, n)}
         IN  ReachesRow(grid, seen \cup next, next, row)

\* the cells of the entrance gap
EntranceGap ==
    {<<x, SEPARATOR_ROW>> : x \in ((MAP_WIDTH - ENTRANCE_WIDTH) \div 2) ..
                                  ((MAP_WIDTH - ENTRANCE_WIDTH) \div 2 + ENTRANCE_WIDTH - 1)}

\* C16: whatever the strategy and the outcomes of Math.random(), the
\* generated grid holds a chain of edge-sharing cells, none Undiggable, from
\* a cell of the entrance gap to a cell of a body row (y >= BODY_START).
C16_EntranceReachesBody ==
    MapGenerated =>
        LET start == {c \in EntranceGap : Passable(ret, c)}
        IN  ReachesRow(ret, start, start, BODY_START)

\* the strategy the last generateMap generated
TypeGenerated == IF Falsy(call.mapType) THEN currentMapType ELSE call.mapType

\* C18: in every simpleBox map, every cell of the rows BODY_START ..
\* MAP_HEIGHT-2 and columns 1 .. MAP_WIDTH-2 is Diggable.
C18_SimpleBoxBody ==
    (MapGenerated /\ TypeGenerated = SIMPLE_BOX) =>
        \A x \in 1 .. (MAP_WIDTH - 2), y \in BODY_START .. (MAP_HEIGHT - 2) :
            ret[y][x] = DIGGABLE

\* generateMap() after setMapType('simpleBox'): the corners of the body
C18_Witness ==
    /\ MapGenerated
    /\ call.mapType = Null
    /\ currentMapType = SIMPLE_BOX
    /\ ret[BODY_START][1] = DIGGABLE
    /\ ret[MAP_HEIGHT - 2][MAP_WIDTH - 2] = DIGGABLE
    /\ ret[BODY_START - 1][1] = UNDIGGABLE

\* the outcome of the switch default: the BellJar body on the base structure
BellJarMap(rnd) ==
    generateBellJarPlayArea(createBaseMapStructure(rnd), rnd, BaseDraws)

\* C19 as stated: generateMap called with a name that is none of the five
\* MAP_TYPES values returns a map (it does not fail) whose body was filled by
\* the BellJar strategy on top of the shared base structure.
C19_UnknownNameIsBellJar ==
    (MapGenerated /\ call.mapType \in (NameArgs \cup {""}) \ MAP_TYPES) =>
        WellFormedMap(ret) /\ ret = BellJarMap(call.random)

\* C19 as amended: the same for a name that is none of the five and is not
\* the empty string.
C19_UnknownNonEmptyNameIsBellJar ==
    (MapGenerated /\ call.mapType \in NameArgs \ MAP_TYPES) =>
        WellFormedMap(ret) /\ ret = BellJarMap(call.random)

\* generateMap('unknown') while currentMapType is 'maze': the first maze wall
\* cell (2, BODY_START) holds what the BellJar strategy put there
C19_Witness ==
    /\ MapGenerated
    /\ call.mapType = UnknownName
    /\ currentMapType = MAZE
    /\ ret = BellJarMap(call.random)
    /\ ret[BODY_START][2] = DIGGABLE

\* the cells path p wrote in the bellJar map just generated
Carved(p) == CarvedBy(call.paths, p, BaseDraws + BodyDraws)
BellJarGenerated == MapGenerated /\ TypeGenerated \notin MAP_TYPES \ {BELL_JAR}

\* C22: in every bellJar map each of the 2 paths forces one cell to Empty in
\* every body row BODY_START..MAP_HEIGHT-2, and its column stays within
\* 1..MAP_WIDTH-2
C22_PathsTopToBottom ==
    BellJarGenerated =>
        \A p \in 0 .. (numPaths - 1) :
            /\ \A row \in BODY_START .. (MAP_HEIGHT - 2) :
                   \E i \in 1 .. Len(Carved(p)) :
                       Carved(p)[i].y = row /\ ret[row][Carved(p)[i].x] = EMPTY
            /\ \A i \in 1 .. Len(Carved(p)) :
                   Carved(p)[i].x >= 1 /\ Carved(p)[i].x <= MAP_WIDTH - 2

\* the first cell path p wrote is linked to the row of the last one by
\* edge-sharing cells that are not Undiggable
PathLinked(p) ==
    LET first == <<Carved(p)[1].x, Carved(p)[1].y>>
    IN  ReachesRow(ret, {first}, {first}, Carved(p)[Len(Carved(p))].y)

\* C23: in every bellJar map each carved cell of a path shares an edge with
\* the next carved cell of that path, so that the first and the last row of
\* the path are linked by edge-sharing cells that are not Undiggable
C23_PathIsChain ==
    BellJarGenerated =>
        \A p \in 0 .. (numPaths - 1) :
            /\ \A i \in 1 .. (Len(Carved(p)) - 1) :
                   <<Carved(p)[i + 1].x, Carved(p)[i + 1].y>>
                       \in Adjacent(<<Carved(p)[i].x, Carved(p)[i].y>>)
            /\ PathLinked(p)

CavernGenerated == MapGenerated /\ TypeGenerated = CAVERN
\* the array `caverns` of the cavern map just generated, and the grid as the
\* chamber pass left it, before connectCaverns
Caverns == CavernLoop(<<>>, call.random, 0, BaseDraws)
Chambers == CavernChambers(createBaseMapStructure(call.random), Caverns)
Distance2(x, y, cavern) ==
    (x - cavern.x) * (x - cavern.x) + (y - cavern.y) * (y - cavern.y)
BodyCells == {c \in (0 .. (MAP_WIDTH - 1)) \X (0 .. (MAP_HEIGHT - 1)) : InBody(c[1], c[2])}

\* C24: in the cavern strategy, after the chamber pass and before the
\* tunnels, every body cell nearer to some cavern centre than that cavern's
\* radius is Empty, whatever the order of the caverns
C24_ChamberInteriorsEmpty ==
    CavernGenerated =>
        \A c \in BodyCells :
            (\E i \in 1 .. Len(Caverns) : WithinRadius(Distance2(c[1], c[2], Caverns[i]), Caverns[i]))
                => Chambers[c[2]][c[1]] = EMPTY

Between(v, a, b) == (a <= v /\ v <= b) \/ (b <= v /\ v <= a)
\* the cells from centre c1 along its row to the column of c2, then along
\* that column to centre c2, both centres included
Elbow(c1, c2) ==
    {<<x, c1.y>> : x \in {v \in 0 .. (MAP_WIDTH - 1) : Between(v, c1.x, c2.x)}}
    \cup {<<c2.x, y>> : y \in {v \in 0 .. (MAP_HEIGHT - 1) : Between(v, c1.y, c2.y)}}
\* the cells connectCaverns changed
Tunnelled == {c \in CellsOf(ret) : ret[c[2]][c[1]] # Chambers[c[2]][c[1]]}

\* C25: in every cavern map consecutive cavern centres are joined by the
\* cells of the horizontal leg and then the vertical leg, none of them
\* Undiggable, and connectCaverns changes cells of the body only
C25_TunnelsJoinCentres ==
    CavernGenerated =>
        /\ \A i \in 1 .. (Len(Caverns) - 1) :
               \A c \in Elbow(Caverns[i], Caverns[i + 1]) :
                   Passable(ret, c) /\ InBody(c[1], c[2])
        /\ \A c \in Tunnelled : InBody(c[1], c[2])

\* a tunnel with both legs went through rock the chamber pass had left
C25_Witness ==
    /\ CavernGenerated
    /\ \E i \in 1 .. (Len(Caverns) - 1) :
           /\ Caverns[i].x # Caverns[i + 1].x
           /\ Caverns[i].y # Caverns[i + 1].y
           /\ \E c \in Elbow(Caverns[i], Caverns[i + 1]) :
                  /\ c[1] = Caverns[i + 1].x
                  /\ Chambers[c[2]][c[1]] = UNDIGGABLE
                  /\ ret[c[2]][c[1]] = DIGGABLE

MazeGenerated == MapGenerated /\ TypeGenerated = MAZE
\* the body cells that chains of edge-sharing passable body cells reach from
\* the cells of `frontier`; `seen` are the cells already visited
RECURSIVE Region(_, _, _)
Region(grid, seen, frontier) ==
    IF frontier = {} THEN seen
    ELSE LET next == {n \in UNION {Adjacent(c) : c \in frontier} :
                         n \notin seen /\ InBody(n[1], n[2]) /\ Passable(grid, n)}
         IN  Region(grid, seen \cup next, next)

\* C26: in every maze map, whatever the openings, the body cells that are
\* not Undiggable form one region: all of them are reached from one of them
\* by steps between edge-sharing body cells that are not Undiggable
C26_MazeHasNoPocket ==
    MazeGenerated =>
        LET open == {c \in BodyCells : Passable(ret, c)}
        IN  open = {} \/ \E c \in open : Region(ret, {c}, {c}) = open

\* a maze with walls standing, an opening made in the Diggable fill and an
\* opening that took a wall cell away
C26_Witness ==
    /\ MazeGenerated
    /\ \E c \in BodyCells : MazeWall(c[1], c[2]) /\ ret[c[2]][c[1]] = UNDIGGABLE
    /\ \E c \in BodyCells : ~MazeWall(c[1], c[2]) /\ ret[c[2]][c[1]] = EMPTY
    /\ \E c \in BodyCells : MazeWall(c[1], c[2]) /\ ret[c[2]][c[1]] = EMPTY

\* C29: setMapType with a name that is none of the five MAP_TYPES values
\* leaves currentMapType as it was, and after any setMapType currentMapType
\* is one of the five
C29_UnknownNameIgnored ==
    [][call'.name = "setMapType" =>
           /\ call'.mapType \notin MAP_TYPES => currentMapType' = currentMapType
           /\ currentMapType' \in MAP_TYPES]_vars

\* setMapType('unknown') on a generator set to the maze strategy before
C29_Witness ==
    /\ call.name = "setMapType"
    /\ call.mapType = UnknownName
    /\ currentMapType = MAZE

-----------------------------------------------------------------------------
(* Properties of repeated generation (RepeatSpec) *)

\* the corridor cells of the neck, which generateNeck fills at random
NeckCorridor ==
    {<<x, y>> : x \in ((MAP_WIDTH - neckWidth) \div 2) .. ((MAP_WIDTH - neckWidth) \div 2 + neckWidth - 1),
                y \in NECK_START .. (NECK_END - 1)}
TwoSimpleBoxCalls ==
    /\ call.name = "generateMap" /\ call.mapType = SIMPLE_BOX
    /\ call'.name = "generateMap" /\ call'.mapType = SIMPLE_BOX

\* C17 as stated: a call of generateMap('simpleBox') returns the grid the
\* call of generateMap('simpleBox') before it returned, cell for cell,
\* whatever Math.random() yields.
C17_SimpleBoxDeterministic ==
    [][TwoSimpleBoxCalls => ret' = ret]_vars

\* C17 as amended: the two grids agree in every cell outside the neck
\* corridor (rows NECK_START..NECK_END-1, columns 6..13).
C17_SimpleBoxSameOutsideNeck ==
    [][TwoSimpleBoxCalls =>
           \A x \in 0 .. (MAP_WIDTH - 1), y \in 0 .. (MAP_HEIGHT - 1) :
               <<x, y>> \notin NeckCorridor => ret'[y][x] = ret[y][x]]_vars

\* a second generateMap('simpleBox') in a row, its neck free of obstacles
\* (Math.random() gave 19/20 throughout)
C17_Witness ==
    /\ MapGenerated
    /\ call.again
    /\ call.mapType = SIMPLE_BOX
    /\ \A c \in NeckCorridor : ret[c[2]][c[1]] = EMPTY
    /\ ret[BODY_START][1] = DIGGABLE

-----------------------------------------------------------------------------
(* Properties of the game (GameSpec) *)

HomeBaseCells ==
    {c \in (0 .. (width - 1)) \X (0 .. (height - 1)) : isInHomeBase(c[1], c[2])}

\* C20: whatever moves, digs, Alt-click edits and map-type changes have
\* happened, every cell for which isInHomeBase is true is Empty
C20_HomeBaseStaysEmpty ==
    \A c \in HomeBaseCells : getTerrainAt(c[1], c[2]) = EMPTY

\* an Alt-click on a home-base tile other than the player's was refused,
\* after the player had acted on this map
C20_Witness ==
    /\ call.name = "click"
    /\ call.altKey
    /\ <<call.tileX, call.tileY>> \in HomeBaseCells
    /\ ~(player.x = call.tileX /\ player.y = call.tileY)
    /\ ~call.edited
    /\ steps = MaxPlay
    /\ getTerrainAt(call.tileX, call.tileY) = EMPTY

\* a grid mutation made during play: a successful dig or a tile edit
PlayMutation == call'.name \in {"dig", "click"} /\ baseGrid' # baseGrid
\* the cell a dig or a click was aimed at
Target(c) == IF c.name = "dig" THEN [x |-> c.x, y |-> c.y] ELSE [x |-> c.tileX, y |-> c.tileY]
\* the array of affected tiles handed to the redraw callback
Handed(c, r) == IF c.name = "dig" THEN r ELSE c.affectedTiles

\* C21: a grid mutation made during play is followed, before anything else
\* changes the grid, by its affected-tile set and by its redraw, both
\* computed on the grid as the mutation left it: the step that mutates the
\* grid hands getAffectedVisualTiles of the mutated cell to the callback and
\* leaves on the canvas the tile indices of the grid after the mutation
C21_MutationThenRedraw ==
    [][PlayMutation =>
           /\ \A x \in 0 .. (width - 1), y \in 0 .. (height - 1) :
                  Target(call') = [x |-> x, y |-> y]
                      => Handed(call', ret') = getAffectedVisualTiles(x, y)'
           /\ canvas' = render']_vars

\* a dig has succeeded and its four affected tiles show the dug grid
C21_Witness ==
    /\ call.name = "dig"
    /\ ret # Null
    /\ Len(ret) = 4
    /\ getTerrainAt(call.x, call.y) = EMPTY
    /\ written[<<call.x, call.y>>] = EMPTY
    /\ canvas = render

C28_CellsAndKeysKnown ==
    /\ \A x \in 0 .. (width - 1), y \in 0 .. (height - 1) :
           baseGrid[y][x] \in {EMPTY, DIGGABLE, UNDIGGABLE}
    /\ \A t \in VisualTiles :
           LET pattern == getVisualTilePattern(t.x, t.y)
           IN  MapHas(PATTERN_LOOKUP,
                      PatternKey(pattern.tl, pattern.tr, pattern.bl, pattern.br))

\* an edit took a cell from Undiggable, the last of the cycle, back to Empty
\* on a map that had been dug or edited before
C28_Witness ==
    /\ call.name = "click"
    /\ call.edited
    /\ getTerrainAt(call.tileX, call.tileY) = EMPTY
    /\ steps >= 2

-----------------------------------------------------------------------------
(* Properties of the keyboard (KeySpec) *)

\* the key has had a keydown since its last keyup
Held(key) == MapHas(keys, key) /\ keys[key] = TRUE

\* C30: a keydown that calls the handler of its key marks the key, the mark
\* goes with the keyup of that key alone, and a keydown of a marked key calls
\* no handler: nothing moves and nothing is dug until the key is released
C30_OneHandlerCallPerPress ==
    [][\A key \in EventKeys :
           /\ (steps' # steps /\ event'.key = key) =>
                  event'.type = "keydown" /\ ~Held(key) /\ Held(key)'
           /\ (Held(key) /\ ~Held(key)') => event' = [type |-> "keyup", key |-> key]
           /\ (event' = [type |-> "keydown", key |-> key] /\ Held(key)) =>
                  /\ steps' = steps
                  /\ player' = player
                  /\ baseGrid' = baseGrid
                  /\ call' = call]_vars

\* the key S was pressed, then the space key, and S then repeated: the last
\* handler called is the one of the space key
C30_Witness ==
    /\ event = [type |-> "keydown", key |-> KEY_CODES.S]
    /\ Held(KEY_CODES.S)
    /\ Held(KEY_CODES.SPACE)
    /\ call.name = "dig"
    /\ steps = 2

====
